---- MODULE Spec2Model ----
(***************************************************************************)
(* Model of the RCS ZC6R HVAC bridge: the zone registry (zones.py), the    *)
(* serial controller with its control loop, command handlers and status    *)
(* decoders (rcs_controller.py) and the publish step of the MQTT client    *)
(* (mqtt_client.py).                                                       *)
(*                                                                         *)
(* Two threads share the registry and the serial connection: the loop      *)
(* thread running control_loop, and the MQTT network thread that calls     *)
(* set_setpoint / set_mode.  force_sync, on_connect and on_disconnect are  *)
(* single assignments and are modelled as atomic actions.                  *)
(*                                                                         *)
(* Wire tokens are sequences of one-character strings so that the prefix   *)
(* tests and slices of the decoders are computed as the code computes      *)
(* them.  Python None is "None" for string fields and <<>> for numeric     *)
(* fields (a number x is <<x>>).                                           *)
(***************************************************************************)
EXTENDS Integers, Sequences, FiniteSets, TLC

VARIABLES
    zones,       \* zones.zones_by_index: zone index -> Zone fields
    conn,        \* RCSController.conn: "open", "closed" (is_open False), "none" (None)
    conn_lock,   \* RCSController.conn_lock: "free" or the thread holding it
    first_pass,  \* RCSController.first_pass
    connected,   \* MQTTClient.connected
    loop,        \* the loop thread: position and locals of control_loop
    cmd,         \* the command thread: position and locals of set_setpoint/set_mode,
                 \* and the number of writes the running call has made
    wire,        \* the last operation performed on the serial connection
    published,   \* per zone: the last state payload handed to client.publish
    obs          \* history variables used to state the properties

vars == <<zones, conn, conn_lock, first_pass, connected, loop, cmd, wire, published, obs>>

(***************************************************************************)
(* Bounds                                                                  *)
(***************************************************************************)
MaxCycles == 2
MaxCalls == 1

(***************************************************************************)
(* Strings as character sequences                                          *)
(***************************************************************************)
StartsWith(s, pre) ==
    /\ Len(s) >= Len(pre)
    /\ SubSeq(s, 1, Len(pre)) = pre

\* Python slice s[n:]
DropFirst(s, n) ==
    SubSeq(s, n + 1, Len(s))

\* Python slice s[a:b] for 0 <= a <= b
Slice(s, a, b) ==
    SubSeq(s, a + 1, IF b < Len(s) THEN b ELSE Len(s))

Digits == {"0", "1", "2", "3", "4", "5", "6", "7", "8", "9"}

DigitVal(c) ==
    CASE c = "0" -> 0 [] c = "1" -> 1 [] c = "2" -> 2 [] c = "3" -> 3
      [] c = "4" -> 4 [] c = "5" -> 5 [] c = "6" -> 6 [] c = "7" -> 7
      [] c = "8" -> 8 [] c = "9" -> 9

\* int(bytes) / float(bytes) succeed on a non-empty run of decimal digits; every
\* other token of the alphabet used here makes them raise ValueError.
IsNumber(s) ==
    /\ Len(s) > 0
    /\ \A i \in 1..Len(s) : s[i] \in Digits

RECURSIVE NumberValue(_)
NumberValue(s) ==
    IF Len(s) = 0 THEN 0
    ELSE 10 * NumberValue(SubSeq(s, 1, Len(s) - 1)) + DigitVal(s[Len(s)])

(***************************************************************************)
(* zones.py                                                                *)
(***************************************************************************)
None == "None"
NoNumber == <<>>
NoZone == 0

\* the configured zone indices, in zones_by_index insertion order
ZoneOrder == <<1, 2>>
ZoneIdx == {ZoneOrder[i] : i \in 1..Len(ZoneOrder)}

\* Zone.__init__
NewZone ==
    [current_temperature |-> NoNumber,
     current_setpoint |-> NoNumber,
     current_mode |-> None,
     current_action |-> None,
     is_heating |-> FALSE,
     is_damper_open |-> FALSE,
     modified_since_last_sync |-> FALSE]

\* Zone.entity_name
EntityName(i) ==
    <<"zone_", i>>

\* zones.get_zone_by_index: the zone index, or NoZone for None
get_zone_by_index(index) ==
    IF index \in ZoneIdx THEN index ELSE NoZone

\* zones.get_zone_by_entity_name: the zone index, or NoZone for None
get_zone_by_entity_name(entity) ==
    IF \E i \in ZoneIdx : EntityName(i) = entity
    THEN CHOOSE i \in ZoneIdx : EntityName(i) = entity
    ELSE NoZone

(***************************************************************************)
(* rcs_controller.py: constants                                            *)
(***************************************************************************)
MIN_SETPOINT == 40
MAX_SETPOINT == 99

MODE_MAP_MQTT2RCS ==
    [off |-> "O", heat |-> "H", cool |-> "C", auto |-> "A"]

MODE_MAP_RCS2MQTT ==
    [O |-> "off", H |-> "heat", C |-> "cool", A |-> "Auto", I |-> None]

ZONE_ID_PREFIX == <<"Z", "=">>
\* line 145 tests the literal b"self.TEMP_PREFIX", not the value of TEMP_PREFIX
TEMP_CASE_LITERAL ==
    <<"s", "e", "l", "f", ".", "T", "E", "M", "P", "_", "P", "R", "E", "F", "I", "X">>
SETPOINT_PREFIX == <<"S", "P", "=">>
MODE_PREFIX == <<"M", "=">>
FAN_MODE_PREFIX == <<"F", "M", "=">>
HEAT_CALL_PREFIX == <<"H", "1", "A", "=">>
DAMPER_STATUS_PREFIX == <<"D">>

(***************************************************************************)
(* Registry field update: the pattern                                      *)
(*     if zone.<field> != value: zone.<field> = value;                     *)
(*                               zone.modified_since_last_sync = True      *)
(* used by both decoders.                                                  *)
(***************************************************************************)
\* a decoder that stores and marks the zone on every token
ApplyAlways(zs, i, field, value) ==
    [zs EXCEPT ![i][field] = value, ![i].modified_since_last_sync = TRUE]

ApplyIfChanged(zs, i, field, value) ==
    IF zs[i][field] # value
    THEN [zs EXCEPT ![i][field] = value, ![i].modified_since_last_sync = TRUE]
    ELSE zs

(***************************************************************************)
(* RCSController._process_status_type_1                                    *)
(* The accumulator carries the registry, the current zone (local `zone`)   *)
(* and how the for loop goes on: "next", "break", "return" (return False   *)
(* after a caught ValueError) or "raise" (an uncaught ValueError of int()).*)
(***************************************************************************)
Type1Zone(acc, param) ==
    LET text == DropFirst(param, Len(ZONE_ID_PREFIX)) IN
    IF ~IsNumber(text)
    THEN [acc EXCEPT !.flow = "raise"]
    ELSE [acc EXCEPT !.zone = get_zone_by_index(NumberValue(text))]

Type1Temperature(acc, param) ==
    LET text == DropFirst(param, Len(TEMP_CASE_LITERAL)) IN
    IF acc.zone = NoZone THEN [acc EXCEPT !.flow = "break"]
    ELSE IF ~IsNumber(text) THEN [acc EXCEPT !.flow = "return"]
    ELSE [acc EXCEPT !.zs =
            ApplyIfChanged(acc.zs, acc.zone, "current_temperature", <<NumberValue(text)>>)]

\* a setpoint case that keeps a setpoint the registry already holds
Type1SetpointKeepsStored(acc, param) ==
    LET text == DropFirst(param, Len(SETPOINT_PREFIX)) IN
    IF acc.zone = NoZone THEN [acc EXCEPT !.flow = "break"]
    ELSE IF ~IsNumber(text) THEN [acc EXCEPT !.flow = "return"]
    ELSE IF acc.zs[acc.zone].current_setpoint # NoNumber THEN acc
    ELSE [acc EXCEPT !.zs =
            ApplyIfChanged(acc.zs, acc.zone, "current_setpoint", <<NumberValue(text)>>)]

\* lines 158-169
Type1Setpoint(acc, param) ==
    LET text == DropFirst(param, Len(SETPOINT_PREFIX)) IN
    IF acc.zone = NoZone THEN [acc EXCEPT !.flow = "break"]
    ELSE IF ~IsNumber(text) THEN [acc EXCEPT !.flow = "return"]
    ELSE [acc EXCEPT !.zs =
            ApplyIfChanged(acc.zs, acc.zone, "current_setpoint", <<NumberValue(text)>>)]

\* `mode` is the decoded text after "M="; it is stored as it is (line 180)
Type1Mode(acc, param) ==
    LET text == DropFirst(param, Len(MODE_PREFIX)) IN
    IF acc.zone = NoZone THEN [acc EXCEPT !.flow = "break"]
    ELSE IF ~(Len(text) = 1 /\ text[1] \in DOMAIN MODE_MAP_RCS2MQTT)
    THEN [acc EXCEPT !.flow = "break"]
    ELSE [acc EXCEPT !.zs = ApplyIfChanged(acc.zs, acc.zone, "current_mode", text[1])]

Type1FanMode(acc, param) ==
    IF acc.zone = NoZone THEN [acc EXCEPT !.flow = "break"] ELSE acc

\* one iteration of the for loop: the match statement, cases tried in order
Type1Param(acc, param) ==
    IF StartsWith(param, ZONE_ID_PREFIX) THEN Type1Zone(acc, param)
    ELSE IF StartsWith(param, TEMP_CASE_LITERAL) THEN Type1Temperature(acc, param)
    ELSE IF StartsWith(param, SETPOINT_PREFIX) THEN Type1Setpoint(acc, param)
    ELSE IF StartsWith(param, MODE_PREFIX) THEN Type1Mode(acc, param)
    ELSE IF StartsWith(param, FAN_MODE_PREFIX) THEN Type1FanMode(acc, param)
    ELSE acc

RECURSIVE Type1Loop(_, _)
Type1Loop(acc, params) ==
    IF params = <<>> \/ acc.flow # "next" THEN acc
    ELSE Type1Loop(Type1Param(acc, Head(params)), Tail(params))

\* the registry after the call, and whether the call raised
process_status_type_1(zs, status_type_1) ==
    LET r == Type1Loop([zs |-> zs, zone |-> NoZone, flow |-> "next"], status_type_1)
    IN [zs |-> r.zs, raised |-> (r.flow = "raise")]

(***************************************************************************)
(* RCSController._process_status_type_2                                    *)
(* `heat` is the local is_hvac_heating: "None", "True" or "False".         *)
(***************************************************************************)
Type2HeatCall(acc, param) ==
    LET text == DropFirst(param, Len(HEAT_CALL_PREFIX)) IN
    IF ~IsNumber(text) THEN [acc EXCEPT !.flow = "raise"]
    ELSE IF NumberValue(text) \notin {0, 1} THEN [acc EXCEPT !.flow = "break"]
    ELSE [acc EXCEPT !.heat = IF NumberValue(text) = 1 THEN "True" ELSE "False"]

\* the damper code read with the opposite polarity
Type2ApplyInverted(zs, zone, is_hvac_heating, damper_status) ==
    LET is_damper_open == (damper_status = 1)
        is_zone_heating == is_damper_open /\ is_hvac_heating
        zs1 == ApplyIfChanged(zs, zone, "is_heating", is_zone_heating)
        zs2 == ApplyIfChanged(zs1, zone, "is_damper_open", is_damper_open)
    IN [zs |-> ApplyIfChanged(zs2, zone, "current_action",
                              IF is_zone_heating THEN "heating" ELSE "idle"),
        flow |-> "next"]

\* a zone that counts as heating whenever the heat call is active
Type2ApplyHeatCall(zs, zone, is_hvac_heating, damper_status) ==
    LET is_damper_open == (damper_status = 0)
        is_zone_heating == is_hvac_heating
        zs1 == ApplyIfChanged(zs, zone, "is_heating", is_zone_heating)
        zs2 == ApplyIfChanged(zs1, zone, "is_damper_open", is_damper_open)
    IN IF zs2[zone].current_mode = "off"
       THEN IF is_zone_heating
            THEN [zs |-> zs2, flow |-> "break"]
            ELSE [zs |-> ApplyIfChanged(zs2, zone, "current_action", "off"),
                  flow |-> "next"]
       ELSE [zs |-> ApplyIfChanged(zs2, zone, "current_action",
                                   IF is_zone_heating THEN "heating" ELSE "idle"),
             flow |-> "next"]

\* lines 222-241, for a known zone and a damper status of 0 or 1
Type2Apply(zs, zone, is_hvac_heating, damper_status) ==
    LET is_damper_open == (damper_status = 0)
        is_zone_heating == is_damper_open /\ is_hvac_heating
        zs1 == ApplyIfChanged(zs, zone, "is_heating", is_zone_heating)
        zs2 == ApplyIfChanged(zs1, zone, "is_damper_open", is_damper_open)
    IN IF zs2[zone].current_mode = "off"
       THEN IF is_zone_heating
            THEN [zs |-> zs2, flow |-> "break"]
            ELSE [zs |-> ApplyIfChanged(zs2, zone, "current_action", "off"),
                  flow |-> "next"]
       ELSE [zs |-> ApplyIfChanged(zs2, zone, "current_action",
                                   IF is_zone_heating THEN "heating" ELSE "idle"),
             flow |-> "next"]

\* a damper case without the test of line 207: a missing heat call counts as
\* no heat call
Type2DamperNoContext(acc, param) ==
    LET zone == get_zone_by_index(NumberValue(Slice(param, 1, 2)))
        statusText == DropFirst(param, 3)
    IN IF zone = NoZone \/ ~IsNumber(statusText) \/ NumberValue(statusText) \notin {0, 1}
       THEN [acc EXCEPT !.flow = "break"]
       ELSE LET r == Type2Apply(acc.zs, zone, acc.heat = "True", NumberValue(statusText))
            IN [acc EXCEPT !.zs = r.zs, !.flow = r.flow]

\* lines 206-241
Type2Damper(acc, param) ==
    LET zoneText == Slice(param, 1, 2)
        statusText == DropFirst(param, 3)
    IN IF acc.heat = "None" THEN [acc EXCEPT !.flow = "break"]
       ELSE IF ~IsNumber(zoneText) THEN [acc EXCEPT !.flow = "raise"]
       ELSE IF get_zone_by_index(NumberValue(zoneText)) = NoZone
       THEN [acc EXCEPT !.flow = "break"]
       ELSE IF ~IsNumber(statusText) THEN [acc EXCEPT !.flow = "raise"]
       ELSE IF NumberValue(statusText) \notin {0, 1} THEN [acc EXCEPT !.flow = "break"]
       ELSE LET r == Type2Apply(acc.zs, get_zone_by_index(NumberValue(zoneText)),
                                acc.heat = "True", NumberValue(statusText))
            IN [acc EXCEPT !.zs = r.zs, !.flow = r.flow]

Type2Param(acc, param) ==
    IF StartsWith(param, HEAT_CALL_PREFIX) THEN Type2HeatCall(acc, param)
    ELSE IF StartsWith(param, DAMPER_STATUS_PREFIX) THEN Type2Damper(acc, param)
    ELSE acc

RECURSIVE Type2Loop(_, _)
Type2Loop(acc, params) ==
    IF params = <<>> \/ acc.flow # "next" THEN acc
    ELSE Type2Loop(Type2Param(acc, Head(params)), Tail(params))

process_status_type_2(zs, status_type_2) ==
    LET r == Type2Loop([zs |-> zs, heat |-> "None", flow |-> "next"], status_type_2)
    IN [zs |-> r.zs, raised |-> (r.flow = "raise")]

(***************************************************************************)
(* The serial link.  A write is [z, key, num, str]: the text                *)
(* "A=1 Z=<z> <key>=<num or str>" (status requests are "A=1 R=<num>\r").   *)
(***************************************************************************)
NoData == [z |-> 0, key |-> "", num |-> 0, str |-> ""]
StatusRequest(n) == [z |-> 0, key |-> "R", num |-> n, str |-> ""]
\* f"A=1 Z={zone.zone_index} SP={setpoint:.0f}"
SetpointCommand(zone, setpoint) == [z |-> zone, key |-> "SP", num |-> setpoint, str |-> ""]
\* f"A=1 Z={zone.zone_index} M={mode}"
ModeCommand(zone, mode) == [z |-> zone, key |-> "M", num |-> 0, str |-> mode]

\* conn.write / conn.read_until performed by thread `who`
LinkOp(w, who, op, data) ==
    [by |-> who, op |-> op, data |-> data]

\* a lock that never blocks
LockAvailableAlways(lock) ==
    TRUE

\* Lock.acquire succeeds only on a free lock
LockAvailable(lock) ==
    lock = "free"

(***************************************************************************)
(* What the device may answer (after bytes.split()), and what the bridge   *)
(* may ask for.                                                            *)
(***************************************************************************)
T1_Full == <<<<"Z", "=", "2">>, <<"T", "=", "7", "1">>, <<"S", "P", "=", "4", "0">>,
             <<"M", "=", "H">>>>
T1_BadZone == <<<<"Z", "=", "x">>>>
Type1Records == {T1_Full, T1_BadZone}

T2_Heat == <<<<"H", "1", "A", "=", "1">>, <<"D", "1", "=", "0">>, <<"D", "2", "=", "0">>>>
T2_Closed == <<<<"H", "1", "A", "=", "1">>, <<"D", "2", "=", "1">>>>
\* read_until gave up at the timeout: it returns the bytes received so far, here
\* none, and does not raise
T2_Timeout == <<>>
Type2Records == {T2_Heat, T2_Closed, T2_Timeout}

Entities == {EntityName(2), <<"zone_", 9>>}
SetpointValues == {39, 40, 99, 100}
ModeValues == {"off", "heat", "fan"}

(***************************************************************************)
(* Initial state: after create_zones_from_config, RCSController.__init__   *)
(* and MQTTClient.__init__, before control_loop is called.                 *)
(***************************************************************************)
LoopIdle(pc, rc) ==
    [pc |-> pc, force |-> FALSE, it |-> <<>>, status_type_1 |-> <<>>,
     status_type_2 |-> <<>>, rc |-> rc]

NoEntity == <<"", 0>>

CmdIdle(pc) ==
    [pc |-> pc, op |-> "none", entity |-> NoEntity, zone |-> NoZone, setpoint |-> 0,
     mode |-> "",
     cmd_string |-> NoData, writes |-> 0]

NoPayload == [setpoint |-> NoNumber, mode |-> None, temperature |-> NoNumber,
              action |-> None]

Init ==
    /\ zones = [i \in ZoneIdx |-> NewZone]
    /\ conn = "open"
    /\ conn_lock = "free"
    /\ first_pass = TRUE
    /\ connected = FALSE
    /\ loop = LoopIdle("get_status", -1)
    /\ cmd = CmdIdle("idle")
    /\ wire = [by |-> "nobody", op |-> "none", data |-> NoData]
    /\ published = [i \in ZoneIdx |-> NoPayload]
    /\ obs = [cycles |-> 0, calls |-> 0, pubset |-> {}, seen_dirty |-> {},
              dirty_before |-> {},
              pub_connected |-> FALSE, sync_req |-> "none", forced_done |-> FALSE]

(***************************************************************************)
(* The loop thread: RCSController.control_loop                             *)
(***************************************************************************)
\* _get_all_zone_status, line 118: the connection test that starts a poll
GetStatus ==
    /\ loop.pc = "get_status"
    /\ obs.cycles < MaxCycles
    /\ loop' = IF conn = "none"
               THEN [loop EXCEPT !.pc = "close", !.rc = 0]
               ELSE [loop EXCEPT !.pc = "acquire"]
    /\ obs' = [obs EXCEPT !.cycles = @ + 1]
    /\ UNCHANGED <<zones, conn, conn_lock, first_pass, connected, cmd, wire, published>>

\* line 121: with self.conn_lock
LoopAcquire ==
    /\ loop.pc = "acquire"
    /\ LockAvailable(conn_lock)
    /\ conn_lock' = "loop"
    /\ loop' = [loop EXCEPT !.pc = "write1"]
    /\ UNCHANGED <<zones, conn, first_pass, connected, cmd, wire, published, obs>>

\* line 123
LoopWrite1 ==
    /\ loop.pc = "write1"
    /\ wire' = LinkOp(wire, "loop", "write", StatusRequest(1))
    /\ loop' = [loop EXCEPT !.pc = "read1"]
    /\ UNCHANGED <<zones, conn, conn_lock, first_pass, connected, cmd, published, obs>>

\* line 124: read_until returns a record, or what arrived before the timeout
LoopRead1 ==
    /\ loop.pc = "read1"
    /\ \E rec \in Type1Records :
          loop' = [loop EXCEPT !.pc = "write2", !.status_type_1 = rec]
    /\ wire' = LinkOp(wire, "loop", "read", NoData)
    /\ UNCHANGED <<zones, conn, conn_lock, first_pass, connected, cmd, published, obs>>

\* line 126
LoopWrite2 ==
    /\ loop.pc = "write2"
    /\ wire' = LinkOp(wire, "loop", "write", StatusRequest(2))
    /\ loop' = [loop EXCEPT !.pc = "read2"]
    /\ UNCHANGED <<zones, conn, conn_lock, first_pass, connected, cmd, published, obs>>

\* line 127
LoopRead2 ==
    /\ loop.pc = "read2"
    /\ \E rec \in Type2Records :
          loop' = [loop EXCEPT !.pc = "release", !.status_type_2 = rec]
    /\ wire' = LinkOp(wire, "loop", "read", NoData)
    /\ UNCHANGED <<zones, conn, conn_lock, first_pass, connected, cmd, published, obs>>

\* leaving the with block
LoopRelease ==
    /\ loop.pc = "release"
    /\ conn_lock' = "free"
    /\ loop' = [loop EXCEPT !.pc = "decode1"]
    /\ UNCHANGED <<zones, conn, first_pass, connected, cmd, wire, published, obs>>

\* a write or read raises (write timeout, serial I/O error): the with block
\* releases the lock and the except clause of control_loop sets rc = 1
LoopLinkError ==
    /\ loop.pc \in {"write1", "read1", "write2", "read2"}
    /\ conn_lock' = "free"
    /\ loop' = [loop EXCEPT !.pc = "close", !.rc = 1]
    /\ UNCHANGED <<zones, conn, first_pass, connected, cmd, wire, published, obs>>

\* line 128; a ValueError of int() reaches the except clause of control_loop
LoopDecode1 ==
    /\ loop.pc = "decode1"
    /\ LET r == process_status_type_1(zones, loop.status_type_1) IN
         /\ zones' = r.zs
         /\ loop' = IF r.raised
                    THEN [loop EXCEPT !.pc = "close", !.rc = 1]
                    ELSE [loop EXCEPT !.pc = "decode2"]
    /\ UNCHANGED <<conn, conn_lock, first_pass, connected, cmd, wire, published, obs>>

\* line 129
LoopDecode2 ==
    /\ loop.pc = "decode2"
    /\ LET r == process_status_type_2(zones, loop.status_type_2) IN
         /\ zones' = r.zs
         /\ loop' = IF r.raised
                    THEN [loop EXCEPT !.pc = "close", !.rc = 1]
                    ELSE [loop EXCEPT !.pc = "pub_call"]
    /\ UNCHANGED <<conn, conn_lock, first_pass, connected, cmd, wire, published, obs>>

(***************************************************************************)
(* MQTTClient.publish_all_zone_status, called at line 65 with              *)
(* force = self.first_pass                                                 *)
(***************************************************************************)
\* the skip test with the flag inverted
PublishSkipsClean(zone_rec, force) ==
    zone_rec.modified_since_last_sync /\ ~force

\* the zone is skipped: `not zone.modified_since_last_sync and not force`
PublishSkips(zone_rec, force) ==
    ~zone_rec.modified_since_last_sync /\ ~force

\* status_entry
StatusEntry(zone_rec) ==
    [setpoint |-> zone_rec.current_setpoint,
     mode |-> zone_rec.current_mode,
     temperature |-> zone_rec.current_temperature,
     action |-> zone_rec.current_action]

\* a publish step that clears the flag of every zone at once
ClearModifiedAll(zs, z) ==
    [i \in DOMAIN zs |-> [zs[i] EXCEPT !.modified_since_last_sync = FALSE]]

\* line 198
ClearModified(zs, z) ==
    [zs EXCEPT ![z].modified_since_last_sync = FALSE]

\* the call: the argument is read and the connected test is made
PubCall ==
    /\ loop.pc = "pub_call"
    /\ loop' = [loop EXCEPT !.force = first_pass,
                            !.it = IF connected THEN ZoneOrder ELSE <<>>,
                            !.pc = IF connected THEN "pub_loop" ELSE "reset_first_pass"]
    /\ obs' = [obs EXCEPT !.pub_connected = connected,
                          !.dirty_before = {z \in ZoneIdx : zones[z].modified_since_last_sync},
                          !.sync_req = IF @ = "pending" /\ first_pass /\ connected
                                       THEN "serving" ELSE @]
    /\ UNCHANGED <<zones, conn, conn_lock, first_pass, connected, cmd, wire, published>>

\* the for loop is exhausted: the call returns
PubReturn ==
    /\ loop.pc = "pub_loop"
    /\ loop.it = <<>>
    /\ loop' = [loop EXCEPT !.pc = "reset_first_pass"]
    /\ obs' = [obs EXCEPT !.forced_done = @ \/ (loop.force /\ obs.pubset = ZoneIdx),
                          !.sync_req = IF @ = "serving" THEN "none" ELSE @]
    /\ UNCHANGED <<zones, conn, conn_lock, first_pass, connected, cmd, wire, published>>

\* lines 184-186: the next zone is examined and skipped
PubSkip ==
    /\ loop.pc = "pub_loop"
    /\ loop.it # <<>>
    /\ PublishSkips(zones[Head(loop.it)], loop.force)
    /\ loop' = [loop EXCEPT !.it = Tail(@)]
    /\ UNCHANGED <<zones, conn, conn_lock, first_pass, connected, cmd, wire, published, obs>>

\* line 184: the next zone is examined and selected
PubSelect ==
    /\ loop.pc = "pub_loop"
    /\ loop.it # <<>>
    /\ ~PublishSkips(zones[Head(loop.it)], loop.force)
    /\ loop' = [loop EXCEPT !.pc = "pub_snapshot"]
    /\ obs' = [obs EXCEPT !.seen_dirty =
                 IF zones[Head(loop.it)].modified_since_last_sync
                 THEN @ \cup {Head(loop.it)} ELSE @]
    /\ UNCHANGED <<zones, conn, conn_lock, first_pass, connected, cmd, wire, published>>

\* lines 187-194: the payload is built from the zone's fields and published
PubSnapshot ==
    /\ loop.pc = "pub_snapshot"
    /\ published' = [published EXCEPT ![Head(loop.it)] = StatusEntry(zones[Head(loop.it)])]
    /\ loop' = [loop EXCEPT !.pc = "pub_clear"]
    /\ obs' = [obs EXCEPT !.pubset = @ \cup {Head(loop.it)}]
    /\ UNCHANGED <<zones, conn, conn_lock, first_pass, connected, cmd, wire>>

\* line 198
PubClear ==
    /\ loop.pc = "pub_clear"
    /\ zones' = ClearModified(zones, Head(loop.it))
    /\ loop' = [loop EXCEPT !.pc = "pub_loop", !.it = Tail(@)]
    /\ UNCHANGED <<conn, conn_lock, first_pass, connected, cmd, wire, published, obs>>

\* lines 66-67: self.first_pass = False, then sleep(15)
ResetFirstPass ==
    /\ loop.pc = "reset_first_pass"
    /\ first_pass' = FALSE
    /\ loop' = LoopIdle("get_status", loop.rc)
    /\ obs' = [obs EXCEPT !.pubset = {}, !.seen_dirty = {}, !.dirty_before = {},
                          !.pub_connected = FALSE]
    /\ UNCHANGED <<zones, conn, conn_lock, connected, cmd, wire, published>>

\* line 74
LoopClose ==
    /\ loop.pc = "close"
    /\ conn' = "closed"
    /\ loop' = [loop EXCEPT !.pc = "set_none"]
    /\ UNCHANGED <<zones, conn_lock, first_pass, connected, cmd, wire, published, obs>>

\* lines 75-76
LoopSetNone ==
    /\ loop.pc = "set_none"
    /\ conn' = "none"
    /\ loop' = LoopIdle("stopped", loop.rc)
    /\ UNCHANGED <<zones, conn_lock, first_pass, connected, cmd, wire, published, obs>>

(***************************************************************************)
(* The command thread: RCSController.set_setpoint and set_mode, called     *)
(* from the MQTT network thread                                            *)
(***************************************************************************)
\* line 79 and line 97: `not self.conn or not self.conn.is_open`
LinkUnavailable(c) ==
    c # "open"

\* a range test that excludes the two ends
SetpointAcceptedExclusive(setpoint) ==
    ~(setpoint <= MIN_SETPOINT \/ setpoint >= MAX_SETPOINT)

\* line 81, negated: the setpoint is accepted
SetpointAccepted(setpoint) ==
    ~(setpoint < MIN_SETPOINT \/ setpoint > MAX_SETPOINT)

\* the MQTT network thread calls set_setpoint(entity, setpoint)
CallSetSetpoint(entity, setpoint) ==
    /\ cmd.pc = "idle"
    /\ obs.calls < MaxCalls
    /\ cmd' = [CmdIdle("entry") EXCEPT !.op = "setpoint", !.entity = entity,
                                       !.setpoint = setpoint]
    /\ obs' = [obs EXCEPT !.calls = @ + 1]
    /\ UNCHANGED <<zones, conn, conn_lock, first_pass, connected, loop, wire, published>>

\* the MQTT network thread calls set_mode(entity, mode)
CallSetMode(entity, mode) ==
    /\ cmd.pc = "idle"
    /\ obs.calls < MaxCalls
    /\ cmd' = [CmdIdle("entry") EXCEPT !.op = "mode", !.entity = entity, !.mode = mode]
    /\ obs' = [obs EXCEPT !.calls = @ + 1]
    /\ UNCHANGED <<zones, conn, conn_lock, first_pass, connected, loop, wire, published>>

\* lines 79-87: the checks of set_setpoint; the call returns or goes on to the lock
SetSetpointChecks ==
    /\ cmd.pc = "entry"
    /\ cmd.op = "setpoint"
    /\ LET zone == get_zone_by_entity_name(cmd.entity) IN
         cmd' = IF \/ LinkUnavailable(conn)
                   \/ ~SetpointAccepted(cmd.setpoint)
                   \/ zone = NoZone
                THEN CmdIdle("idle")
                ELSE [cmd EXCEPT !.pc = "acquire", !.zone = zone,
                                 !.cmd_string = SetpointCommand(zone, cmd.setpoint)]
    /\ UNCHANGED <<zones, conn, conn_lock, first_pass, connected, loop, wire, published, obs>>

\* lines 97-108: the checks of set_mode
SetModeChecks ==
    /\ cmd.pc = "entry"
    /\ cmd.op = "mode"
    /\ LET zone == get_zone_by_entity_name(cmd.entity) IN
         cmd' = IF \/ LinkUnavailable(conn)
                   \/ cmd.mode \notin DOMAIN MODE_MAP_MQTT2RCS
                   \/ zone = NoZone
                THEN CmdIdle("idle")
                ELSE [cmd EXCEPT !.pc = "acquire", !.zone = zone,
                                 !.cmd_string = ModeCommand(zone, cmd.mode)]
    /\ UNCHANGED <<zones, conn, conn_lock, first_pass, connected, loop, wire, published, obs>>

\* lines 88 and 109: with self.conn_lock
CmdAcquire ==
    /\ cmd.pc = "acquire"
    /\ LockAvailable(conn_lock)
    /\ conn_lock' = "cmd"
    /\ cmd' = [cmd EXCEPT !.pc = "write"]
    /\ UNCHANGED <<zones, conn, first_pass, connected, loop, wire, published, obs>>

\* lines 90 and 111 on an open connection
CmdWrite ==
    /\ cmd.pc = "write"
    /\ conn = "open"
    /\ wire' = LinkOp(wire, "cmd", "write", cmd.cmd_string)
    /\ cmd' = [cmd EXCEPT !.pc = "release", !.writes = @ + 1]
    /\ UNCHANGED <<zones, conn, conn_lock, first_pass, connected, loop, published, obs>>

\* a handler that goes on to the statements after the with block although its
\* write raised
WriteRaisedIgnored(c) ==
    [c EXCEPT !.pc = "compare"]

\* the exception of conn.write is not caught in the handler: the statements after
\* the with block (lines 91-94, 112-115) are not executed
WriteRaised(c) ==
    CmdIdle("raised")

\* lines 90 and 111 raising: the connection was closed or set to None by the
\* loop after the check at the top of the handler, or the write timed out.
\* The with block releases the lock and the exception leaves the handler.
CmdWriteRaises ==
    /\ cmd.pc = "write"
    /\ conn_lock' = "free"
    /\ cmd' = WriteRaised(cmd)
    /\ UNCHANGED <<zones, conn, first_pass, connected, loop, wire, published, obs>>

\* leaving the with block
CmdRelease ==
    /\ cmd.pc = "release"
    /\ conn_lock' = "free"
    /\ cmd' = [cmd EXCEPT !.pc = "compare"]
    /\ UNCHANGED <<zones, conn, first_pass, connected, loop, wire, published, obs>>

\* lines 92 and 113: the stored value differs from the commanded one
CommandDiffers(zone_rec, c) ==
    IF c.op = "setpoint"
    THEN zone_rec.current_setpoint # <<c.setpoint>>
    ELSE zone_rec.current_mode # c.mode

CmdCompare ==
    /\ cmd.pc = "compare"
    /\ cmd' = IF CommandDiffers(zones[cmd.zone], cmd)
              THEN [cmd EXCEPT !.pc = "store1"]
              ELSE CmdIdle("idle")
    /\ UNCHANGED <<zones, conn, conn_lock, first_pass, connected, loop, wire, published, obs>>

\* line 93 (set_setpoint: the flag first) and line 114 (set_mode: the value first)
CmdStoreFirst(zs, c) ==
    IF c.op = "setpoint"
    THEN [zs EXCEPT ![c.zone].modified_since_last_sync = TRUE]
    ELSE [zs EXCEPT ![c.zone].current_mode = c.mode]

\* line 94 (set_setpoint: the value) and line 115 (set_mode: the flag)
CmdStoreSecond(zs, c) ==
    IF c.op = "setpoint"
    THEN [zs EXCEPT ![c.zone].current_setpoint = <<c.setpoint>>]
    ELSE [zs EXCEPT ![c.zone].modified_since_last_sync = TRUE]

CmdStore1 ==
    /\ cmd.pc = "store1"
    /\ zones' = CmdStoreFirst(zones, cmd)
    /\ cmd' = [cmd EXCEPT !.pc = "store2"]
    /\ UNCHANGED <<conn, conn_lock, first_pass, connected, loop, wire, published, obs>>

CmdStore2 ==
    /\ cmd.pc = "store2"
    /\ zones' = CmdStoreSecond(zones, cmd)
    /\ cmd' = CmdIdle("idle")
    /\ UNCHANGED <<conn, conn_lock, first_pass, connected, loop, wire, published, obs>>

(***************************************************************************)
(* Calls from outside the two threads' code paths above                    *)
(***************************************************************************)
\* RCSController.force_sync
ForceSync ==
    /\ obs.calls < MaxCalls
    /\ first_pass' = TRUE
    /\ obs' = [obs EXCEPT !.sync_req = "pending", !.calls = @ + 1]
    /\ UNCHANGED <<zones, conn, conn_lock, connected, loop, cmd, wire, published>>

\* MQTTClient.on_connect with rc = 0, on the MQTT network thread
OnConnect ==
    /\ cmd.pc = "idle"
    /\ ~connected
    /\ connected' = TRUE
    /\ UNCHANGED <<zones, conn, conn_lock, first_pass, loop, cmd, wire, published, obs>>

\* MQTTClient.on_disconnect, on the MQTT network thread
OnDisconnect ==
    /\ cmd.pc = "idle"
    /\ connected
    /\ connected' = FALSE
    /\ UNCHANGED <<zones, conn, conn_lock, first_pass, loop, cmd, wire, published, obs>>

Next ==
    \/ GetStatus
    \/ LoopAcquire
    \/ LoopWrite1
    \/ LoopRead1
    \/ LoopWrite2
    \/ LoopRead2
    \/ LoopRelease
    \/ LoopLinkError
    \/ LoopDecode1
    \/ LoopDecode2
    \/ PubCall
    \/ PubReturn
    \/ PubSkip
    \/ PubSelect
    \/ PubSnapshot
    \/ PubClear
    \/ ResetFirstPass
    \/ LoopClose
    \/ LoopSetNone
    \/ \E entity \in Entities, setpoint \in SetpointValues : CallSetSetpoint(entity, setpoint)
    \/ \E entity \in Entities, mode \in ModeValues : CallSetMode(entity, mode)
    \/ SetSetpointChecks
    \/ SetModeChecks
    \/ CmdAcquire
    \/ CmdWrite
    \/ CmdWriteRaises
    \/ CmdRelease
    \/ CmdCompare
    \/ CmdStore1
    \/ CmdStore2
    \/ ForceSync
    \/ OnConnect
    \/ OnDisconnect

Spec ==
    Init /\ [][Next]_vars

(***************************************************************************)
(* The decoders on their own: the loop thread has read the two records of  *)
(* a poll and is about to decode them.  The records and the registry the   *)
(* decoders start from range over more cases than the polls of Spec.       *)
(***************************************************************************)
T1_Indeterminate == <<<<"Z", "=", "2">>, <<"M", "=", "I">>>>
T1_NoZoneFirst == <<<<"S", "P", "=", "4", "1">>, <<"Z", "=", "2">>,
                    <<"S", "P", "=", "4", "1">>>>
T1_UnknownZoneFirst == <<<<"Z", "=", "9">>, <<"S", "P", "=", "4", "1">>, <<"Z", "=", "2">>,
                         <<"S", "P", "=", "4", "1">>>>
T1_BadSetpoint == <<<<"Z", "=", "2">>, <<"S", "P", "=", "4", "1">>, <<"Z", "=", "1">>,
                    <<"S", "P", "=", "4", "x">>>>
T1_BadTemperature == <<<<"Z", "=", "2">>, <<"S", "P", "=", "4", "1">>,
                       <<"T", "=", "7", "x">>>>
T1_Off == <<<<"Z", "=", "2">>, <<"M", "=", "O">>>>
DecodeType1Records ==
    {T1_Full, T1_Indeterminate, T1_NoZoneFirst, T1_UnknownZoneFirst, T1_BadSetpoint,
     T1_BadTemperature, T1_Off}

T2_Idle == <<<<"H", "1", "A", "=", "0">>, <<"D", "2", "=", "0">>>>
T2_DamperOnly == <<<<"D", "2", "=", "0">>>>
T2_DamperFirst == <<<<"D", "2", "=", "0">>, <<"H", "1", "A", "=", "1">>,
                    <<"D", "2", "=", "0">>>>
T2_BadHeatCall == <<<<"H", "1", "A", "=", "2">>, <<"H", "1", "A", "=", "1">>,
                    <<"D", "2", "=", "0">>>>
T2_BadDamper == <<<<"H", "1", "A", "=", "1">>, <<"D", "1", "=", "2">>,
                  <<"D", "2", "=", "0">>>>
T2_UnknownZone == <<<<"H", "1", "A", "=", "1">>, <<"D", "9", "=", "0">>,
                    <<"D", "2", "=", "0">>>>
DecodeType2Records ==
    {T2_Heat, T2_Closed, T2_Idle, T2_DamperOnly, T2_DamperFirst, T2_BadHeatCall,
     T2_BadDamper, T2_UnknownZone}

\* zone 2 after an earlier poll "Z=2 ... SP=40 M=H" / "H1A=1 D2=0"
PolledZone ==
    [NewZone EXCEPT !.current_setpoint = <<40>>, !.current_mode = "H",
                    !.current_action = "heating", !.is_heating = TRUE,
                    !.is_damper_open = TRUE, !.modified_since_last_sync = TRUE]

\* the states zone 2 may be in when a poll is decoded: new, polled (published or
\* not), and after set_mode("off") or set_mode("heat") on a new or polled zone
DecodeZoneStates ==
    {NewZone,
     PolledZone,
     ClearModified([i \in {2} |-> PolledZone], 2)[2],
     [NewZone EXCEPT !.current_mode = "off", !.modified_since_last_sync = TRUE],
     [PolledZone EXCEPT !.current_mode = "off"],
     [PolledZone EXCEPT !.current_mode = "heat"]}

DecodeInit ==
    /\ \E z \in DecodeZoneStates :
          zones = [i \in ZoneIdx |-> IF i = 2 THEN z ELSE NewZone]
    /\ conn = "open"
    /\ conn_lock = "free"
    /\ first_pass \in BOOLEAN
    /\ connected = FALSE
    /\ \E r1 \in DecodeType1Records, r2 \in DecodeType2Records :
          loop = [LoopIdle("decode1", -1) EXCEPT !.status_type_1 = r1,
                                                  !.status_type_2 = r2]
    /\ cmd = CmdIdle("idle")
    /\ wire = [by |-> "loop", op |-> "read", data |-> NoData]
    /\ published = [i \in ZoneIdx |-> NoPayload]
    /\ obs = [cycles |-> 1, calls |-> 0, pubset |-> {}, seen_dirty |-> {},
              dirty_before |-> {},
              pub_connected |-> FALSE, sync_req |-> "none", forced_done |-> FALSE]

DecodeNext ==
    \/ LoopDecode1
    \/ LoopDecode2

DecodeSpec ==
    DecodeInit /\ [][DecodeNext]_vars

(***************************************************************************)
(* The loop after a command has returned: control_loop polls and publishes *)
(* while no command handler runs.  Zone 2 starts as a command left it, on  *)
(* a new zone or on a polled and published one, with the command's change   *)
(* published already or not yet.                                           *)
(***************************************************************************)
\* zone 2 after an earlier poll and its publish step
PublishedZone ==
    [PolledZone EXCEPT !.modified_since_last_sync = FALSE]

\* set_setpoint(zone_2, setpoint) has returned (lines 92-94)
AfterSetSetpoint(zone_rec, setpoint) ==
    CmdStoreSecond(
        CmdStoreFirst([i \in {2} |-> zone_rec],
                      [op |-> "setpoint", zone |-> 2, setpoint |-> setpoint]),
        [op |-> "setpoint", zone |-> 2, setpoint |-> setpoint])[2]

\* set_mode(zone_2, mode) has returned (lines 113-115)
AfterSetMode(zone_rec, mode) ==
    CmdStoreSecond(
        CmdStoreFirst([i \in {2} |-> zone_rec], [op |-> "mode", zone |-> 2, mode |-> mode]),
        [op |-> "mode", zone |-> 2, mode |-> mode])[2]

SettledZoneStates ==
    LET commanded ==
            {AfterSetSetpoint(z, 99) : z \in {NewZone, PublishedZone}}
                \cup {AfterSetMode(z, m) : z \in {NewZone, PublishedZone},
                                           m \in {"off", "heat"}}
    IN commanded \cup {ClearModified([i \in {2} |-> z], 2)[2] : z \in commanded}

SettledInit ==
    /\ \E z \in SettledZoneStates :
          /\ zones = [i \in ZoneIdx |-> IF i = 2 THEN z ELSE NewZone]
          /\ published = [i \in ZoneIdx |->
                            IF i = 2 /\ ~z.modified_since_last_sync
                            THEN StatusEntry(z) ELSE NoPayload]
    /\ conn = "open"
    /\ conn_lock = "free"
    /\ first_pass = FALSE
    /\ connected \in BOOLEAN
    /\ loop = LoopIdle("get_status", -1)
    /\ cmd = CmdIdle("idle")
    /\ wire = [by |-> "cmd", op |-> "write", data |-> NoData]
    /\ obs = [cycles |-> 0, calls |-> MaxCalls, pubset |-> {}, seen_dirty |-> {},
              dirty_before |-> {},
              pub_connected |-> FALSE, sync_req |-> "none", forced_done |-> FALSE]

SettledNext ==
    \/ GetStatus
    \/ LoopAcquire
    \/ LoopWrite1
    \/ LoopRead1
    \/ LoopWrite2
    \/ LoopRead2
    \/ LoopRelease
    \/ LoopLinkError
    \/ LoopDecode1
    \/ LoopDecode2
    \/ PubCall
    \/ PubReturn
    \/ PubSkip
    \/ PubSelect
    \/ PubSnapshot
    \/ PubClear
    \/ ResetFirstPass
    \/ LoopClose
    \/ LoopSetNone
    \/ OnConnect
    \/ OnDisconnect

SettledSpec ==
    SettledInit /\ [][SettledNext]_vars

(***************************************************************************)
(* MQTTClient.on_message, on the MQTT network thread: one received message *)
(* is handled, up to the end of the command handler it dispatches to.  The *)
(* loop thread is in its sleep.  A Python value is its type and its text,  *)
(* the text a sequence of characters.  At "returned" on_message has        *)
(* returned without calling a handler.                                     *)
(***************************************************************************)
Bytes(text) == [type |-> "bytes", text |-> text]
Str(text) == [type |-> "str", text |-> text]

\* Python ==: a bytes object and a str are never equal
PyEquals(a, b) ==
    a.type = b.type /\ a.text = b.text

\* bytes.decode("utf-8")
Utf8Decode(b) == Str(b.text)

Online == <<"o", "n", "l", "i", "n", "e">>
Offline == <<"o", "f", "f", "l", "i", "n", "e">>
Seventy == <<"7", "0">>
HeatWord == <<"h", "e", "a", "t">>

\* the mode words of line 118 and of MODE_MAP_MQTT2RCS, as character sequences
ModeWord(text) ==
    IF text = <<"o", "f", "f">> THEN "off"
    ELSE IF text = HeatWord THEN "heat"
    ELSE IF text = <<"c", "o", "o", "l">> THEN "cool"
    ELSE IF text = <<"a", "u", "t", "o">> THEN "auto"
    ELSE ""

topic_root == "homeassistant"
device_node_id == "rcs"

\* msg.topic.split("/")
StatusTopic == <<topic_root, "status">>
CommandTopic(entity, command) ==
    <<topic_root, "climate", device_node_id, entity, "set", command>>
StateTopic(entity) ==
    <<topic_root, "climate", device_node_id, entity, "state", "x">>

\* paho delivers msg.payload as bytes
Messages ==
    [topic : {StatusTopic, CommandTopic(EntityName(2), "setpoint"),
              CommandTopic(EntityName(2), "mode"), CommandTopic(EntityName(2), "fan"),
              StateTopic(EntityName(2))},
     payload : {Bytes(Online), Bytes(Offline), Bytes(Seventy), Bytes(HeatWord)}]

MessageInit ==
    /\ zones = [i \in ZoneIdx |-> NewZone]
    /\ conn = "open"
    /\ conn_lock = "free"
    /\ first_pass \in BOOLEAN
    /\ connected \in BOOLEAN
    /\ loop = LoopIdle("get_status", -1)
    /\ \E msg \in Messages : cmd = [pc |-> "on_message", msg |-> msg]
    /\ wire = [by |-> "nobody", op |-> "none", data |-> NoData]
    /\ published = [i \in ZoneIdx |-> NoPayload]
    /\ obs = [cycles |-> 0, calls |-> 0, pubset |-> {}, seen_dirty |-> {},
              dirty_before |-> {},
              pub_connected |-> FALSE, sync_req |-> "none", forced_done |-> FALSE]

\* lines 78-82
IsStatusTopic(topic_parts) ==
    /\ Len(topic_parts) = 2
    /\ topic_parts[1] = topic_root
    /\ topic_parts[2] = "status"

\* lines 89-95
IsMalformedTopic(topic_parts) ==
    \/ Len(topic_parts) # 6
    \/ topic_parts[1] # topic_root
    \/ topic_parts[2] # "climate"
    \/ topic_parts[3] # device_node_id
    \/ topic_parts[5] # "set"

\* lines 73-74
OnMessageNotConnected ==
    /\ cmd.pc = "on_message"
    /\ ~connected
    /\ cmd' = [cmd EXCEPT !.pc = "returned"]
    /\ UNCHANGED <<zones, conn, conn_lock, first_pass, connected, loop, wire, published, obs>>

\* lines 78-86: the availability message of the integration; force_sync (line
\* 249) is called when the payload equals the str "online"
OnMessageStatus ==
    /\ cmd.pc = "on_message"
    /\ connected
    /\ IsStatusTopic(cmd.msg.topic)
    /\ first_pass' = IF PyEquals(cmd.msg.payload, Str(Online)) THEN TRUE ELSE first_pass
    /\ cmd' = [cmd EXCEPT !.pc = "returned"]
    /\ UNCHANGED <<zones, conn, conn_lock, connected, loop, wire, published, obs>>

\* lines 89-97
OnMessageMalformed ==
    /\ cmd.pc = "on_message"
    /\ connected
    /\ ~IsStatusTopic(cmd.msg.topic)
    /\ IsMalformedTopic(cmd.msg.topic)
    /\ cmd' = [cmd EXCEPT !.pc = "returned"]
    /\ UNCHANGED <<zones, conn, conn_lock, first_pass, connected, loop, wire, published, obs>>

\* lines 107-114: float(msg.payload), then set_setpoint(entity, target_setpoint)
OnMessageSetpoint ==
    /\ cmd.pc = "on_message"
    /\ connected
    /\ ~IsStatusTopic(cmd.msg.topic)
    /\ ~IsMalformedTopic(cmd.msg.topic)
    /\ cmd.msg.topic[6] = "setpoint"
    /\ cmd' = IF IsNumber(cmd.msg.payload.text)
              THEN [CmdIdle("entry") EXCEPT !.op = "setpoint", !.entity = cmd.msg.topic[4],
                                            !.setpoint = NumberValue(cmd.msg.payload.text)]
              ELSE [cmd EXCEPT !.pc = "returned"]
    /\ UNCHANGED <<zones, conn, conn_lock, first_pass, connected, loop, wire, published, obs>>

\* lines 115-121: the decoded payload must be a mode word, then set_mode
OnMessageMode ==
    /\ cmd.pc = "on_message"
    /\ connected
    /\ ~IsStatusTopic(cmd.msg.topic)
    /\ ~IsMalformedTopic(cmd.msg.topic)
    /\ cmd.msg.topic[6] = "mode"
    /\ LET payload == Utf8Decode(cmd.msg.payload) IN
         cmd' = IF \E w \in {"off", "heat", "cool", "auto"} : ModeWord(payload.text) = w
                THEN [CmdIdle("entry") EXCEPT !.op = "mode", !.entity = cmd.msg.topic[4],
                                              !.mode = ModeWord(payload.text)]
                ELSE [cmd EXCEPT !.pc = "returned"]
    /\ UNCHANGED <<zones, conn, conn_lock, first_pass, connected, loop, wire, published, obs>>

\* lines 122-123
OnMessageUnknown ==
    /\ cmd.pc = "on_message"
    /\ connected
    /\ ~IsStatusTopic(cmd.msg.topic)
    /\ ~IsMalformedTopic(cmd.msg.topic)
    /\ cmd.msg.topic[6] \notin {"setpoint", "mode"}
    /\ cmd' = [cmd EXCEPT !.pc = "returned"]
    /\ UNCHANGED <<zones, conn, conn_lock, first_pass, connected, loop, wire, published, obs>>

MessageNext ==
    \/ OnMessageNotConnected
    \/ OnMessageStatus
    \/ OnMessageMalformed
    \/ OnMessageSetpoint
    \/ OnMessageMode
    \/ OnMessageUnknown
    \/ SetSetpointChecks
    \/ SetModeChecks
    \/ CmdAcquire
    \/ CmdWrite
    \/ CmdWriteRaises
    \/ CmdRelease
    \/ CmdCompare
    \/ CmdStore1
    \/ CmdStore2

MessageSpec ==
    MessageInit /\ [][MessageNext]_vars

(***************************************************************************)
(* zones.create_zones_from_config, called by the main thread before the    *)
(* controller and the client are constructed.  `zones` is zones_by_index   *)
(* while it is built; zones_by_entity is keyed by the entity name derived  *)
(* from the index and so holds the same zones.  `loop` is the position of  *)
(* the main thread in the function, with its argument and its for loop.    *)
(***************************************************************************)
MaxZones == 2

\* Zone.__init__(name, zone_index)
Zone(name, zone_index) ==
    [name |-> name, zone_index |-> zone_index, entity_name |-> EntityName(zone_index)]
        @@ NewZone

\* one entry of the "zones" list: zone.get("name") and zone.get("index"), None
\* when the key is missing
ConfigEntries ==
    [name : {None, "Den", "Hall"}, index : {NoNumber, <<1>>, <<2>>}]

\* the lists of at most n entries
RECURSIVE ConfigLists(_)
ConfigLists(n) ==
    IF n = 0 THEN {<<>>}
    ELSE LET shorter == ConfigLists(n - 1) IN
         shorter \cup {Append(l, e) : l \in {x \in shorter : Len(x) = n - 1},
                                      e \in ConfigEntries}

\* zone_config: has_zones is whether zone_config.get("zones") is a list
ZoneConfigs ==
    [has_zones : BOOLEAN, zones : ConfigLists(MaxZones)]

ConfigInit ==
    /\ zones = <<>>
    /\ conn = "none"
    /\ conn_lock = "free"
    /\ first_pass = TRUE
    /\ connected = FALSE
    /\ \E zone_config \in ZoneConfigs :
          loop = [pc |-> "create_zones", zone_config |-> zone_config, it |-> <<>>,
                  rc |-> FALSE]
    /\ cmd = CmdIdle("idle")
    /\ wire = [by |-> "nobody", op |-> "none", data |-> NoData]
    /\ published = <<>>
    /\ obs = [cycles |-> 0, calls |-> 0, pubset |-> {}, seen_dirty |-> {},
              dirty_before |-> {},
              pub_connected |-> FALSE, sync_req |-> "none", forced_done |-> FALSE]

\* line 35
NoZonesSpecified(zone_config) ==
    ~zone_config.has_zones \/ ~(Len(zone_config.zones) >= 1)

\* line 39
EntryIncomplete(zone) ==
    zone.name = None \/ zone.index = NoNumber

\* lines 46-47: zones_by_index[new_zone.zone_index] = new_zone
StoreZone(zs, new_zone) ==
    [i \in DOMAIN zs \cup {new_zone.zone_index} |->
        IF i = new_zone.zone_index THEN new_zone ELSE zs[i]]

\* lines 34-37
CreateZonesCheck ==
    /\ loop.pc = "create_zones"
    /\ loop' = IF NoZonesSpecified(loop.zone_config)
               THEN [loop EXCEPT !.pc = "created", !.rc = FALSE]
               ELSE [loop EXCEPT !.pc = "create_zone", !.it = loop.zone_config.zones]
    /\ UNCHANGED <<zones, conn, conn_lock, first_pass, connected, cmd, wire, published, obs>>

\* lines 38-47: one iteration of the for loop
CreateZone ==
    /\ loop.pc = "create_zone"
    /\ loop.it # <<>>
    /\ LET zone == Head(loop.it) IN
         IF EntryIncomplete(zone)
         THEN /\ loop' = [loop EXCEPT !.pc = "created", !.rc = FALSE]
              /\ zones' = zones
         ELSE /\ loop' = [loop EXCEPT !.it = Tail(@)]
              /\ zones' = StoreZone(zones, Zone(zone.name, zone.index[1]))
    /\ UNCHANGED <<conn, conn_lock, first_pass, connected, cmd, wire, published, obs>>

\* line 48
CreateZonesReturn ==
    /\ loop.pc = "create_zone"
    /\ loop.it = <<>>
    /\ loop' = [loop EXCEPT !.pc = "created", !.rc = TRUE]
    /\ UNCHANGED <<zones, conn, conn_lock, first_pass, connected, cmd, wire, published, obs>>

ConfigNext ==
    \/ CreateZonesCheck
    \/ CreateZone
    \/ CreateZonesReturn

ConfigSpec ==
    ConfigInit /\ [][ConfigNext]_vars

(***************************************************************************)
(* Properties                                                              *)
(***************************************************************************)
Modified(z) == zones[z].modified_since_last_sync

\* the loop is between reading zone z's fields for its payload and clearing its flag
PublishingZone(z) ==
    /\ loop.pc \in {"pub_snapshot", "pub_clear"}
    /\ Head(loop.it) = z

\* a command handler is between comparing and storing for zone z
StoringZone(z) ==
    /\ cmd.pc \in {"store1", "store2"}
    /\ cmd.zone = z

LoopInExchange == loop.pc \in {"write1", "read1", "write2", "read2", "release"}
CmdInExchange == cmd.pc \in {"write", "release"}

\* C1: no field change is lost to a concurrent publish step.  Whenever neither
\* the handler nor the publish step is in the middle of zone z, a zone that is
\* not dirty has its commanded fields (setpoint, mode) equal to the ones of the
\* payload last published for it; otherwise the value would be neither in the
\* published payload nor picked up by the next publish step.
C1_NoLostUpdate ==
    \A z \in ZoneIdx :
        (~StoringZone(z) /\ ~PublishingZone(z) /\ ~Modified(z)) =>
            /\ published[z].setpoint = zones[z].current_setpoint
            /\ published[z].mode = zones[z].current_mode

\* C2: the serial exchanges are mutually exclusive: the two threads are never
\* both between acquiring and releasing conn_lock, a thread inside an exchange
\* holds the lock, and every write or read on the link is made by the holder.
C2_SerialExclusion ==
    /\ [](/\ ~(LoopInExchange /\ CmdInExchange)
          /\ (LoopInExchange => conn_lock = "loop")
          /\ (CmdInExchange => conn_lock = "cmd"))
    /\ [][wire' # wire => (conn_lock = wire'.by /\ conn_lock' = wire'.by)]_vars

\* C2 witness: the command thread waits for the lock while the loop is inside its
\* exchange, after the loop has written its first request
C2_Contention ==
    /\ cmd.pc = "acquire"
    /\ loop.pc = "read1"
    /\ wire.by = "loop"

\* C3: a force_sync request that no Publishing phase has begun to serve is never
\* discarded: the force flag is still set.
C3_ForceSyncKept ==
    obs.sync_req = "pending" => first_pass

\* C4: the forced publication of startup is never dropped: at any time either
\* every zone has been published by a forced publish step, or a forced publish
\* step is in progress, or the force flag is still set.
C4_FirstPublishForced ==
    \/ obs.forced_done
    \/ first_pass
    \/ (loop.pc \in {"pub_loop", "pub_snapshot", "pub_clear"} /\ loop.force)

\* the publish call has just returned and was made with force false
NonForcedPublishDone ==
    /\ loop.pc = "reset_first_pass"
    /\ ~loop.force

\* C5 as stated: a non-forced publish step publishes exactly the zones that were
\* dirty before the step, each published zone has its flag false afterwards and
\* a zone that was not dirty is not published and keeps its flag.
C5_PublishesDirtyBefore ==
    NonForcedPublishDone =>
        /\ obs.pubset = obs.dirty_before
        /\ \A z \in obs.pubset : ~Modified(z)
        /\ \A z \in ZoneIdx \ obs.dirty_before : ~Modified(z)

\* C5 amended: a non-forced publish step made while connected publishes exactly
\* the zones whose flag is set when the step examines them and clears the flag of
\* each zone as it publishes it; a zone whose flag is not set when examined is not
\* published and the step changes none of its fields; a step made while not
\* connected publishes nothing and changes no zone.
C5_PublishesDirtyWhenExamined ==
    /\ [](NonForcedPublishDone =>
             obs.pubset = (IF obs.pub_connected THEN obs.seen_dirty ELSE {}))
    /\ [][(loop.pc = "pub_clear" /\ loop'.pc # "pub_clear") =>
             ~zones'[Head(loop.it)].modified_since_last_sync]_vars
    /\ [][(loop.pc = "pub_loop" /\ ~loop.force /\ loop.it # <<>> /\ loop' # loop
              /\ ~Modified(Head(loop.it))) =>
             (zones' = zones /\ published' = published /\ loop'.pc = "pub_loop")]_vars
    /\ [][(loop.pc = "pub_call" /\ ~connected /\ loop' # loop) =>
             (zones' = zones /\ published' = published
                /\ loop'.pc = "reset_first_pass")]_vars

\* C5 witness: a non-forced publish step has returned after publishing a dirty
\* zone and skipping a clean one
C5_NonForcedPublished ==
    /\ NonForcedPublishDone
    /\ obs.pub_connected
    /\ obs.pubset # {}
    /\ obs.pubset # ZoneIdx

\* the fields of a zone without its dirty flag
FieldsOf(zone_rec) ==
    [zone_rec EXCEPT !.modified_since_last_sync = FALSE]

ChangeAware(old, new) ==
    /\ (FieldsOf(new) # FieldsOf(old) => new.modified_since_last_sync)
    /\ (FieldsOf(new) = FieldsOf(old) => new = old)

\* C6: registry updates are change-aware.  A status decode leaves a zone whose
\* values it did not change exactly as it was (flag included) and leaves a zone
\* whose values it changed dirty.  A command handler that finds the stored value
\* equal to the commanded one returns without touching the registry; one that
\* finds it different goes on to store the value and to set the flag.
C6_ChangeAwareUpdates ==
    /\ [][(loop.pc \in {"decode1", "decode2"} /\ loop' # loop) =>
             \A z \in ZoneIdx : ChangeAware(zones[z], zones'[z])]_vars
    /\ [][(cmd.pc = "compare" /\ cmd' # cmd) =>
             /\ zones' = zones
             /\ LET stored == IF cmd.op = "setpoint"
                              THEN zones[cmd.zone].current_setpoint = <<cmd.setpoint>>
                              ELSE zones[cmd.zone].current_mode = cmd.mode
                IN cmd'.pc = (IF stored THEN "idle" ELSE "store1")]_vars
    /\ [][(cmd.pc = "store1" /\ cmd' # cmd) =>
             /\ cmd'.pc = "store2"
             /\ IF cmd.op = "setpoint"
                THEN zones'[cmd.zone].modified_since_last_sync
                ELSE zones'[cmd.zone].current_mode = cmd.mode]_vars
    /\ [][(cmd.pc = "store2" /\ cmd' # cmd) =>
             IF cmd.op = "setpoint"
             THEN zones'[cmd.zone].current_setpoint = <<cmd.setpoint>>
             ELSE zones'[cmd.zone].modified_since_last_sync]_vars

\* C6 witness: in a later cycle the poll has reported the setpoint and mode that
\* zone 2 already holds, and the zone, clean before the decode, is still clean
C6_SamePollKeepsClean ==
    /\ loop.pc = "decode2"
    /\ loop.status_type_1 = T1_Full
    /\ obs.cycles >= 2
    /\ zones[2].current_setpoint = <<40>>
    /\ ~Modified(2)

\* C7: a dirty flag goes from true to false only in the clearing statement of the
\* publish step, and only for the zone whose payload that step has just
\* published.
C7_ClearedOnlyByPublish ==
    [][\A z \in ZoneIdx :
          (Modified(z) /\ ~zones'[z].modified_since_last_sync) =>
              /\ loop.pc = "pub_clear"
              /\ loop'.pc = "pub_loop"
              /\ Head(loop.it) = z
              /\ z \in obs.pubset
              /\ cmd' = cmd]_vars

\* C7 witness: a zone that was dirty when examined has been published and its
\* flag is now false
C7_FlagCleared ==
    \E z \in ZoneIdx :
        /\ z \in obs.seen_dirty
        /\ z \in obs.pubset
        /\ ~Modified(z)
        /\ loop.pc = "pub_loop"

C9_ModeLetterWritten ==
    (cmd.op = "mode" /\ cmd.pc = "release") =>
        wire.data = [z |-> cmd.zone, key |-> "M", num |-> 0,
                     str |-> MODE_MAP_MQTT2RCS[cmd.mode]]

\* C10: decoding the Type 1 record "Z=2 T=71 SP=40 M=H" stores temperature 71,
\* setpoint 40 and mode heat in zone 2, and marks the zone dirty when one of them
\* changed.
C10_Type1RecordDecoded ==
    [][(loop.pc = "decode1" /\ loop'.pc = "decode2" /\ loop.status_type_1 = T1_Full) =>
          /\ zones'[2].current_temperature = <<71>>
          /\ zones'[2].current_setpoint = <<40>>
          /\ zones'[2].current_mode = "heat"
          /\ (zones'[2] # zones[2] => zones'[2].modified_since_last_sync)]_vars

\* C11: decoding a Type 1 record whose only field token is M=I for the known
\* zone 2 leaves the zone's current_mode and its dirty flag as they were.
C11_IndeterminateKeepsMode ==
    [][(loop.pc = "decode1" /\ loop' # loop /\ loop.status_type_1 = T1_Indeterminate) =>
          /\ zones'[2].current_mode = zones[2].current_mode
          /\ zones'[2].modified_since_last_sync = zones[2].modified_since_last_sync]_vars

\* the decode of the Type 2 record has taken zone 2 to the given damper, heating
\* and action values, when the mode of zone 2 is not off
Type2Yields(rec, damper_open, heating, action) ==
    (loop.pc = "decode2" /\ loop' # loop /\ loop.status_type_2 = rec
        /\ zones[2].current_mode # "off") =>
       /\ zones'[2].is_damper_open = damper_open
       /\ zones'[2].is_heating = heating
       /\ zones'[2].current_action = action

\* a decode of a record that reports damper code 1 for zone 2 leaves the damper
\* of zone 2 not open
ClosedDamperDecoded ==
    (loop.pc = "decode2" /\ loop' # loop /\ loop.status_type_2 = T2_Closed) =>
        ~zones'[2].is_damper_open

Type2Prefix(zs, rec, k) ==
    Type2Loop([zs |-> zs, heat |-> "None", flow |-> "next"], SubSeq(rec, 1, k))

\* token k of the record is a damper token and no H1A= token comes before it
DamperBeforeHeatCall(rec, k) ==
    /\ StartsWith(rec[k], DAMPER_STATUS_PREFIX)
    /\ \A j \in 1..(k - 1) : ~StartsWith(rec[j], HEAT_CALL_PREFIX)

\* C13: a damper token that comes before any H1A= token changes no field and no
\* dirty flag of any zone: the registry after the tokens up to and including it
\* is the registry after the tokens before it, and the decode of a record that
\* has damper tokens and no H1A= token leaves the registry as it was.
C13_EarlyDamperSkipped ==
    /\ [](loop.pc = "decode2" =>
            \A k \in 1..Len(loop.status_type_2) :
                DamperBeforeHeatCall(loop.status_type_2, k) =>
                    Type2Prefix(zones, loop.status_type_2, k).zs =
                        Type2Prefix(zones, loop.status_type_2, k - 1).zs)
    /\ [][(loop.pc = "decode2" /\ loop' # loop
              /\ \A k \in 1..Len(loop.status_type_2) :
                    DamperBeforeHeatCall(loop.status_type_2, k)) =>
             zones' = zones]_vars

\* C13 witness: the record "D2=0" has been decoded while the damper of zone 2 is
\* recorded as not open, and it is still recorded as not open
C13_DamperOnlyDecoded ==
    /\ loop.pc = "pub_call"
    /\ loop.status_type_2 = T2_DamperOnly
    /\ ~zones[2].is_damper_open
    /\ zones[2].current_action = None

\* C14: a command handler changes the registry only after its write to the link
\* has completed: it compares and stores only with its one write made, every
\* change it makes to the registry is made by its store statements, and a write
\* that raises changes no zone and ends the handler, which makes no step after.
C14_RegistryAfterWrite ==
    /\ [](cmd.pc \in {"compare", "store1", "store2"} => cmd.writes = 1)
    /\ [][(zones' # zones /\ cmd' # cmd) =>
             (cmd.pc \in {"store1", "store2"} /\ cmd.writes = 1)]_vars
    /\ [][(cmd.pc = "write" /\ cmd'.pc \notin {"write", "release"}) =>
             (zones' = zones /\ cmd'.pc = "raised" /\ cmd'.writes = 0)]_vars
    /\ [][cmd.pc = "raised" => cmd' = cmd]_vars

\* C14 witness: set_mode has written its command and stored the mode, and is
\* about to set the dirty flag
C14_StoredAfterWrite ==
    /\ cmd.pc = "store2"
    /\ cmd.op = "mode"
    /\ cmd.writes = 1
    /\ zones[cmd.zone].current_mode = cmd.mode

\* C15: a command handler never raises because the link is closed or gone: a
\* handler that has reached its write while the link is not open does not leave
\* by an exception.
C15_NoRaiseOnClosedLink ==
    [][(cmd.pc = "write" /\ conn # "open") => cmd'.pc # "raised"]_vars

\* the positions of control_loop in which the records of a poll are decoded and
\* published
DecodingOrPublishing ==
    loop.pc \in {"decode1", "decode2", "pub_call", "pub_loop", "pub_snapshot",
                 "pub_clear", "reset_first_pass"}

\* C16: a status request that fails stops the loop.  After a read that ended at
\* its timeout no record of that poll is decoded or published, and a write or
\* read that raises takes the loop to its shutdown path with a non-zero return
\* value, without changing a zone; on that path the link is closed and no other
\* poll is made.
C16_FailedRequestStops ==
    /\ [](loop.status_type_2 = T2_Timeout => ~DecodingOrPublishing)
    /\ [][(loop.pc \in {"write1", "read1", "write2", "read2"}
              /\ loop'.pc \notin {"write1", "read1", "write2", "read2", "release"}) =>
             (loop'.pc = "close" /\ loop'.rc = 1 /\ zones' = zones)]_vars
    /\ [][(loop.pc = "close" /\ loop' # loop) =>
             (conn' = "closed" /\ loop'.pc = "set_none")]_vars
    /\ [][(loop.pc = "set_none" /\ loop' # loop) =>
             (loop'.pc = "stopped" /\ loop'.rc = loop.rc)]_vars
    /\ [][loop.pc = "stopped" => loop' = loop]_vars

\* C17: the mode of every zone is unset or one of off, heat, cool, auto, and the
\* action of every zone is unset or one of off, heat, idle.
C17_ModeAndActionDomains ==
    \A z \in ZoneIdx :
        /\ zones[z].current_mode \in {None, "off", "heat", "cool", "auto"}
        /\ zones[z].current_action \in {None, "off", "heat", "idle"}

\* two entries of the list carry the same index
DuplicateIndex(entries) ==
    \E j, k \in 1..Len(entries) :
        j # k /\ entries[j].index # NoNumber /\ entries[j].index = entries[k].index

\* C18: create_zones_from_config has returned False when the zone list is
\* missing or empty, when an entry lacks its name or its index, or when two
\* entries have the same index; and when it has returned True every index of
\* the registry is the index of exactly one entry of the list.
C18_BadConfigRejected ==
    loop.pc = "created" =>
        LET entries == loop.zone_config.zones IN
        /\ (\/ NoZonesSpecified(loop.zone_config)
            \/ \E k \in 1..Len(entries) : EntryIncomplete(entries[k])
            \/ DuplicateIndex(entries)) => ~loop.rc
        /\ loop.rc =>
              \A i \in DOMAIN zones :
                  Cardinality({k \in 1..Len(entries) : entries[k].index = <<i>>}) = 1

\* C19: field tokens without a valid current zone do not stop a Type 1 record.
\* After "SP=41 Z=2 SP=41" and after "Z=9 SP=41 Z=2 SP=41" (9 is no zone) the
\* setpoint of zone 2 is 41.
C19_LaterZoneStillApplied ==
    [][(loop.pc = "decode1" /\ loop' # loop
           /\ loop.status_type_1 \in {T1_NoZoneFirst, T1_UnknownZoneFirst}) =>
          zones'[2].current_setpoint = <<41>>]_vars

\* C20: a Type 1 record with a malformed T= or SP= value is rejected as a whole.
\* The decode of "Z=2 SP=41 Z=1 SP=4x" and the decode of "Z=2 SP=41 T=7x" leave
\* every field and every dirty flag of every zone as they were.
C20_MalformedRecordRejected ==
    [][(loop.pc = "decode1" /\ loop' # loop
           /\ loop.status_type_1 \in {T1_BadSetpoint, T1_BadTemperature}) =>
          zones' = zones]_vars

\* C21: a bad token does not end a Type 2 record.  In each of "D2=0 H1A=1 D2=0"
\* (damper token before a heat call), "H1A=2 H1A=1 D2=0" (heat-call value that is
\* not 0 or 1), "H1A=1 D1=2 D2=0" (damper value that is not 0 or 1) and
\* "H1A=1 D9=0 D2=0" (no zone 9) the last token "D2=0" is well formed and comes
\* after a heat call: after the decode the damper of zone 2 is open.
C21_LaterTokensApplied ==
    [][(loop.pc = "decode2" /\ loop' # loop
           /\ loop.status_type_2 \in
                 {T2_DamperFirst, T2_BadHeatCall, T2_BadDamper, T2_UnknownZone}) =>
          zones'[2].is_damper_open]_vars

\* the action the spec derives from the mode, the damper and the heat call
DerivedAction(mode, damper_open, heat_call) ==
    IF mode \in {"off", "O"} THEN "off"
    ELSE IF damper_open /\ heat_call THEN "heat"
    ELSE "idle"

\* C22: after a damper token for zone 2 has been processed the action of zone 2
\* is the derived one.  After "H1A=1 ... D2=0", "H1A=0 D2=0" and "H1A=1 D2=1" the
\* action is off when the mode of zone 2 is off, whether a command stored it
\* ("off") or a poll did (the device's "O"), and whether or not the record
\* reports the zone heating; otherwise it is heat when the damper is open and
\* the heat call is active, and idle when not.
C22_ActionDerived ==
    /\ [][(loop.pc = "decode2" /\ loop' # loop /\ loop.status_type_2 = T2_Heat) =>
             zones'[2].current_action =
                 DerivedAction(zones[2].current_mode, TRUE, TRUE)]_vars
    /\ [][(loop.pc = "decode2" /\ loop' # loop /\ loop.status_type_2 = T2_Idle) =>
             zones'[2].current_action =
                 DerivedAction(zones[2].current_mode, TRUE, FALSE)]_vars
    /\ [][(loop.pc = "decode2" /\ loop' # loop /\ loop.status_type_2 = T2_Closed) =>
             zones'[2].current_action =
                 DerivedAction(zones[2].current_mode, FALSE, TRUE)]_vars

\* C23: no content of a received record stops the loop.  The decode of the
\* Type 1 record is followed by the decode of the Type 2 record and that by the
\* publish step, and the loop enters its shutdown path only from a write or a
\* read on the link, or from the test that finds the connection gone.
C23_RecordNeverStops ==
    /\ [][(loop.pc = "decode1" /\ loop' # loop) => loop'.pc = "decode2"]_vars
    /\ [][(loop.pc = "decode2" /\ loop' # loop) => loop'.pc = "pub_call"]_vars
    /\ [][(loop.pc # "close" /\ loop'.pc = "close") =>
             loop.pc \in {"get_status", "write1", "read1", "write2", "read2"}]_vars

\* the poll has answered "Z=2 T=71 SP=40 M=H" and the decode of that answer is
\* done
FullPollDecoded ==
    /\ loop.status_type_1 = T1_Full
    /\ loop.pc \in {"decode2", "pub_call", "pub_loop", "pub_snapshot", "pub_clear",
                    "reset_first_pass"}

\* C24: the poll wins over an earlier command.  While no command runs, from the
\* decode of a poll that reports setpoint 40 and mode H for zone 2 to the end of
\* the cycle the registry holds that setpoint and that mode for zone 2, whatever
\* the command had stored; a decode that finds one of them different leaves the
\* zone dirty; and a zone is never clean with a payload last published for it
\* that differs from its fields, so the difference is published by the publish
\* step that clears the flag.
C24_PollWins ==
    /\ [](FullPollDecoded =>
             /\ zones[2].current_setpoint = <<40>>
             /\ zones[2].current_mode = "H")
    /\ [][(loop.pc = "decode1" /\ loop' # loop /\ loop.status_type_1 = T1_Full
              /\ (zones[2].current_setpoint # <<40>> \/ zones[2].current_mode # "H")) =>
             zones'[2].modified_since_last_sync]_vars
    /\ [](\A z \in ZoneIdx : ~Modified(z) => published[z] = StatusEntry(zones[z]))

\* C24 witness: the setpoint 99 of a command was published; the next poll has
\* reported 40; the registry holds 40 and zone 2 is dirty, before the publish step
C24_PollOverrodeCommand ==
    /\ loop.pc = "pub_call"
    /\ loop.status_type_1 = T1_Full
    /\ published[2].setpoint = <<99>>
    /\ zones[2].current_setpoint = <<40>>
    /\ Modified(2)

\* C25: handling the message "online" on the integration's status topic while
\* connected calls force_sync: after it the force flag is set.
C25_OnlineForcesSync ==
    [][(cmd.pc = "on_message" /\ connected /\ cmd.msg.topic = StatusTopic
           /\ cmd.msg.payload = Bytes(Online) /\ cmd' # cmd) =>
          first_pass']_vars

\* the loop has written status request 1 and has not yet read the answer to
\* status request 2
PollWindow == loop.pc \in {"read1", "write2", "read2"}

\* C26: a poll is atomic on the wire.  From the write of status request 1 to the
\* end of the read of the answer to status request 2 no step puts a command on
\* the link, no handler is between taking the lock and releasing it, a handler
\* that waits has written nothing, and a handler writes its command only while
\* it holds the lock and the loop is outside its exchange.
C26_PollAtomicOnWire ==
    /\ [][PollWindow => ~(wire' # wire /\ wire'.by = "cmd")]_vars
    /\ [](PollWindow =>
             /\ ~CmdInExchange
             /\ (cmd.pc \in {"entry", "acquire"} => cmd.writes = 0))
    /\ [][(cmd.pc = "write" /\ cmd'.pc = "release") =>
             (conn_lock = "cmd" /\ ~LoopInExchange)]_vars

\* C26 witness: set_mode was called during the poll and waits for the lock while
\* the loop, having written status request 2, reads the answer
C26_CommandWaitsForPoll ==
    /\ loop.pc = "read2"
    /\ wire = LinkOp(wire, "loop", "write", StatusRequest(2))
    /\ cmd.pc = "acquire"
    /\ cmd.op = "mode"
    /\ conn_lock = "loop"

\* C27: no zone is marked as heating with its damper marked as not open.
C27_HeatingImpliesDamperOpen ==
    \A z \in ZoneIdx : zones[z].is_heating => zones[z].is_damper_open

\* C27 witness: zone 2 was published as heating; the next poll has reported the
\* heat call active and the damper of zone 2 closed, and the zone is now neither
\* heating nor open
C27_DamperClosedStopsHeating ==
    /\ loop.pc = "pub_call"
    /\ loop.status_type_2 = T2_Closed
    /\ published[2].action = "heating"
    /\ ~zones[2].is_heating
    /\ ~zones[2].is_damper_open

====
